---- MODULE Spec2Model ----
(***************************************************************************)
(* A state-machine model of dashboard.py: the progress store               *)
(* (ProgressData), the dashboard with its add-problem form, the solve-mode *)
(* practice session (SolveModeScreen) and the solution review              *)
(* (ViewSolutionsScreen).                                                  *)
(*                                                                         *)
(* Python strings that the program takes apart (problem names, file       *)
(* names, topic names) are sequences of one-character strings, so that     *)
(* the file-name cleaning is computed and not assumed.  Names that are     *)
(* only compared or shown (phase and module names) are TLA+ strings.       *)
(*                                                                         *)
(* Four specifications drive the program.  StoreSpec: add_problem and     *)
(* get_all_solved_problems, from every document load() may return.        *)
(* SystemsSpec: the three methods of ProgressData, toggle_systems_topic    *)
(* among them.  DashSpec: the dashboard and its add-problem form, with     *)
(* progress.json changing under the program.  Spec: the practice session   *)
(* and the solution review.                                                *)
(***************************************************************************)
EXTENDS Integers, Sequences, FiniteSets, TLC

VARIABLES
    data,                 \* ProgressData.data, the in-memory progress document
    file,                 \* the content of progress.json
    today,                \* the local date datetime.now() reports (a day number)
    screens,              \* the App's screen stack, top last
    running,              \* the App runs: it has neither exited nor crashed
    current_problem,      \* SolveModeScreen.current_problem
    current_problem_text, \* SolveModeScreen.current_problem_text
    problem_text,         \* the #problem_text Label of SolveModeScreen
    session_solutions,    \* SolveModeScreen.session_solutions (shared with the review screen)
    temp_dir,             \* SolveModeScreen.temp_dir
    selected_index,       \* ViewSolutionsScreen.selected_index
    current_filepath,     \* ViewSolutionsScreen.current_filepath
    file_content,         \* the #file_content Label of ViewSolutionsScreen
    fs_dirs,              \* the session directories that exist on disk
    fs_files,             \* the files on disk: path -> content
    vim_arg,              \* the path of the latest editor invocation
    raised,               \* an exception left a handler uncaught
    saved_log,            \* history: the problems edited and found saved non-empty, in order
    last                  \* history: the latest call of add_problem, of the editor or of
                          \* the clean-up, and what it met

vars == <<data, file, today, screens, running, current_problem, current_problem_text,
          problem_text, session_solutions, temp_dir, selected_index,
          current_filepath, file_content, fs_dirs, fs_files,
          vim_arg, raised, saved_log, last>>

storeVars == <<data, file>>
appVars == <<screens, running>>
solveVars == <<current_problem, current_problem_text, problem_text,
               session_solutions, temp_dir>>
viewVars == <<selected_index, current_filepath, file_content>>
diskVars == <<fs_dirs, fs_files>>

(***************************************************************************)
(* Bounds of the model.                                                    *)
(***************************************************************************)
MaxDay == 1        \* the days that may pass while the program runs

\* no session directory
NoDir == 0

\* Python's None
None == [none |-> TRUE]

(***************************************************************************)
(* Helpers: Python's built-ins on lists.                                   *)
(***************************************************************************)
Range(s) == {s[i] : i \in 1..Len(s)}

Distinct(s) == \A i, j \in 1..Len(s) : i # j => s[i] # s[j]

Count(s, x) == Cardinality({i \in 1..Len(s) : s[i] = x})

RECURSIVE SumSolved(_)
SumSolved(s) == IF s = <<>> THEN 0 ELSE Head(s).solved + SumSolved(Tail(s))

\* the lists of a list, one after the other
RECURSIVE Flatten(_)
Flatten(ss) == IF ss = <<>> THEN <<>> ELSE Head(ss) \o Flatten(Tail(ss))

\* the least index among hits, 0 when there is none: where a
\* "for ... if ...: ... break" loop stops
FirstIndex(hits) ==
    IF hits = {} THEN 0 ELSE CHOOSE i \in hits : \A j \in hits : i <= j

(***************************************************************************)
(* The documents and the call arguments the model draws from.              *)
(***************************************************************************)
TwoSum == <<"a", " ", "b">>
TwoSumSlash == <<"a", "/", "b">>
Paren == <<"(", "c", ")">>
ProblemNames == {TwoSum, TwoSumSlash, Paren}

T1 == <<"T", "1">>
T2 == <<"T", "2">>
T9 == <<"T", "9">>

PhaseIds == {1, 2, 3}        \* 3 is the id of no phase
TopicNames == {T1, T2, T9}   \* T9 is the name of no topic
AddNames == {TwoSum, Paren}

Topic(name, solved, problems) ==
    [name |-> name, solved |-> solved, problems |-> problems]

Phase(id, name, solved, topics) ==
    [id |-> id, name |-> name, solved |-> solved, topics |-> topics]

SystemsTopic(name, completed) == [name |-> name, completed |-> completed]

Module(name, topics) == [name |-> name, topics |-> topics]

\* two modules; both hold a topic S1
Systems ==
    [modules |-> << Module("M1", << SystemsTopic("S1", FALSE), SystemsTopic("S2", TRUE) >>),
                    Module("M2", << SystemsTopic("S1", FALSE) >>) >>]

ModuleNames == {"M1", "M2", "M9"}          \* M9 is the name of no module
SystemsTopicNames == {"S1", "S2", "S9"}    \* S9 is the name of no topic

\* a document of two phases: phase 1 holds topics T1 and T2, phase 2 a topic T1.
\* l gives the three problems lists, k the six stored counters.
Doc(l, k) ==
    [meta |-> [last_updated |-> 0],
     leetcode |->
        [total_solved |-> k[6],
         phases |-> << Phase(1, "P1", k[4], << Topic(T1, k[1], l[1]),
                                               Topic(T2, k[2], l[2]) >>),
                       Phase(2, "P2", k[5], << Topic(T1, k[3], l[3]) >>) >>],
     systems |-> Systems]

\* the counters a document has when they are all in step with its lists
Counters(l) ==
    << Len(l[1]), Len(l[2]), Len(l[3]), Len(l[1]) + Len(l[2]), Len(l[3]),
       Len(l[1]) + Len(l[2]) + Len(l[3]) >>

InitLists ==
    {<<>>, <<TwoSum>>, <<TwoSum, TwoSum>>} \X {<<>>, <<Paren>>} \X {<<>>, <<TwoSum>>}

\* progress.json is written outside the program and json.load checks nothing:
\* the loaded document has its counters in step, or one counter out of step
InitDocs ==
    {Doc(l, Counters(l)) : l \in InitLists}
    \cup {Doc(l, [Counters(l) EXCEPT ![i] = @ + 1]) : l \in InitLists, i \in 1..6}

(***************************************************************************)
(* ProgressData                                                            *)
(***************************************************************************)
\* save() without its date stamp
save_NoStamp(d, now) == d

\* save(): stamps the date and writes the whole document
save(d, now) == [d EXCEPT !.meta.last_updated = now]

\* AddToTopic without its membership test
AddToTopic_NoTest(topic, problem_name) ==
    LET problems == Append(topic.problems, problem_name)
    IN [topic EXCEPT !.problems = problems, !.solved = Len(problems)]

\* AddToTopic that counts before it appends
AddToTopic_CountFirst(topic, problem_name) ==
    IF problem_name \in Range(topic.problems)
    THEN topic
    ELSE [topic EXCEPT !.problems = Append(topic.problems, problem_name),
                       !.solved = Len(topic.problems)]

\* AddToTopic that puts the new name first
AddToTopic_Front(topic, problem_name) ==
    IF problem_name \in Range(topic.problems)
    THEN topic
    ELSE LET problems == <<problem_name>> \o topic.problems
         IN [topic EXCEPT !.problems = problems, !.solved = Len(problems)]

\* the body of "if topic['name'] == topic_name"
AddToTopic(topic, problem_name) ==
    IF problem_name \in Range(topic.problems)
    THEN topic
    ELSE LET problems == Append(topic.problems, problem_name)
         IN [topic EXCEPT !.problems = problems, !.solved = Len(problems)]

\* AddToTopics that falls back on the first topic when no name matches
AddToTopics_Fallback(topics, topic_name, problem_name) ==
    LET ti == FirstIndex({i \in 1..Len(topics) : topics[i].name = topic_name})
    IN [topics EXCEPT ![IF ti = 0 THEN 1 ELSE ti] = AddToTopic(@, problem_name)]

\* the loop over phase['topics'], up to its break
AddToTopics(topics, topic_name, problem_name) ==
    LET ti == FirstIndex({i \in 1..Len(topics) : topics[i].name = topic_name})
    IN IF ti = 0 THEN topics
       ELSE [topics EXCEPT ![ti] = AddToTopic(@, problem_name)]

\* PhaseTotal that counts the recorded problems instead of adding the counters
PhaseTotal_CountProblems(topics) ==
    Len(Flatten([i \in 1..Len(topics) |-> topics[i].problems]))

\* sum(t['solved'] for t in phase['topics'])
PhaseTotal(topics) == SumSolved(topics)

\* the body of "if phase['id'] == phase_id"
AddToPhase(phase, topic_name, problem_name) ==
    LET topics == AddToTopics(phase.topics, topic_name, problem_name)
    IN [phase EXCEPT !.topics = topics, !.solved = PhaseTotal(topics)]

\* sum(p['solved'] for p in self.data['leetcode']['phases'])
GrandTotal(phases) == SumSolved(phases)

\* add_problem, up to its call of save()
add_problem(d, phase_id, topic_name, problem_name) ==
    LET phases == d.leetcode.phases
        pi == FirstIndex({i \in 1..Len(phases) : phases[i].id = phase_id})
        phases1 == IF pi = 0 THEN phases
                   ELSE [phases EXCEPT ![pi] = AddToPhase(@, topic_name, problem_name)]
    IN [d EXCEPT !.leetcode.phases = phases1,
                 !.leetcode.total_solved = GrandTotal(phases1)]

\* the first module of that name that holds a topic of that name, 0 when
\* there is none: where the two loops of toggle_systems_topic stop
ToggleModule(modules, module_name, topic_name) ==
    FirstIndex({i \in 1..Len(modules) :
                   /\ modules[i].name = module_name
                   /\ \E j \in 1..Len(modules[i].topics) :
                         modules[i].topics[j].name = topic_name})

ToggleTopic(topics, topic_name) ==
    FirstIndex({j \in 1..Len(topics) : topics[j].name = topic_name})

\* the flag set instead of flipped
Flip_Set(completed) == TRUE

\* not topic['completed']
Flip(completed) == ~completed

\* toggle_systems_topic without its test of the module name
toggle_systems_topic_AnyModule(d, module_name, topic_name, now) ==
    LET modules == d.systems.modules
        mi == FirstIndex({i \in 1..Len(modules) :
                             \E j \in 1..Len(modules[i].topics) :
                                modules[i].topics[j].name = topic_name})
    IN IF mi = 0
       THEN [data |-> d, saved |-> FALSE, result |-> FALSE]
       ELSE LET ti == ToggleTopic(modules[mi].topics, topic_name)
                completed == Flip(modules[mi].topics[ti].completed)
            IN [data |-> save([d EXCEPT !.systems.modules[mi].topics[ti].completed =
                                           completed], now),
                saved |-> TRUE,
                result |-> completed]

\* toggle_systems_topic: the document it leaves, whether it called save(),
\* and what it returns
toggle_systems_topic(d, module_name, topic_name, now) ==
    LET modules == d.systems.modules
        mi == ToggleModule(modules, module_name, topic_name)
    IN IF mi = 0
       THEN [data |-> d, saved |-> FALSE, result |-> FALSE]
       ELSE LET ti == ToggleTopic(modules[mi].topics, topic_name)
                completed == Flip(modules[mi].topics[ti].completed)
            IN [data |-> save([d EXCEPT !.systems.modules[mi].topics[ti].completed =
                                           completed], now),
                saved |-> TRUE,
                result |-> completed]

\* get_all_solved_problems

TopicProblems(phase, topic) ==
    [i \in 1..Len(topic.problems) |->
        <<topic.problems[i], topic.name, phase.name, phase.id>>]

\* PhaseProblems that keeps the problems of the last topic alone
PhaseProblems_LastTopic(phase) ==
    IF phase.topics = <<>> THEN <<>>
    ELSE TopicProblems(phase, phase.topics[Len(phase.topics)])

PhaseProblems(phase) ==
    Flatten([i \in 1..Len(phase.topics) |-> TopicProblems(phase, phase.topics[i])])

get_all_solved_problems(d) ==
    Flatten([i \in 1..Len(d.leetcode.phases) |-> PhaseProblems(d.leetcode.phases[i])])

(***************************************************************************)
(* The state after construction: ProgressData() has loaded progress.json,  *)
(* the App has pushed the dashboard, no practice session exists yet.       *)
(***************************************************************************)
NoCall == [op |-> "none"]

InitRest ==
    /\ screens = <<"_default", "dashboard">>
    /\ running = TRUE
    /\ current_problem = None
    /\ current_problem_text = <<>>
    /\ problem_text = <<>>
    /\ session_solutions = <<>>
    /\ temp_dir = NoDir
    /\ selected_index = 0
    /\ current_filepath = None
    /\ file_content = <<>>
    /\ fs_dirs = {}
    /\ fs_files = <<>>
    /\ vim_arg = None
    /\ raised = FALSE
    /\ saved_log = <<>>
    /\ last = NoCall

(***************************************************************************)
(* The store on its own: calls of the methods of ProgressData.             *)
(***************************************************************************)
StoreInit ==
    /\ data \in InitDocs
    /\ today = 0
    /\ file = data
    /\ InitRest

\* whether the latest operation was this very call of add_problem
SameAdd(phase_id, topic_name, problem_name) ==
    /\ last.op = "add_problem"
    /\ last.phase_id = phase_id
    /\ last.topic_name = topic_name
    /\ last.problem_name = problem_name

AddCall(phase_id, topic_name, problem_name) ==
    [op |-> "add_problem", phase_id |-> phase_id, topic_name |-> topic_name,
     problem_name |-> problem_name,
     again |-> SameAdd(phase_id, topic_name, problem_name)]

\* ProgressData.add_problem(phase_id, topic_name, problem_name)
StoreAddProblem(phase_id, topic_name, problem_name) ==
    /\ data' = save(add_problem(data, phase_id, topic_name, problem_name), today)
    /\ file' = data'
    /\ last' = AddCall(phase_id, topic_name, problem_name)
    /\ UNCHANGED <<today, appVars, solveVars, viewVars, diskVars, vim_arg,
                   raised, saved_log>>

\* whether the latest operation was this very call of toggle_systems_topic
SameToggle(module_name, topic_name) ==
    /\ last.op = "toggle_systems_topic"
    /\ last.module_name = module_name
    /\ last.topic_name = topic_name

\* ProgressData.toggle_systems_topic(module_name, topic_name)
StoreToggle(module_name, topic_name) ==
    LET call == toggle_systems_topic(data, module_name, topic_name, today)
    IN /\ data' = call.data
       /\ file' = IF call.saved THEN call.data ELSE file
       /\ last' = [op |-> "toggle_systems_topic", module_name |-> module_name,
                   topic_name |-> topic_name, result |-> call.result,
                   before |-> data.systems,
                   again |-> SameToggle(module_name, topic_name)]
       /\ UNCHANGED <<today, appVars, solveVars, viewVars, diskVars, vim_arg,
                      raised, saved_log>>

\* ProgressData.get_all_solved_problems()
StoreGetAllSolved ==
    /\ last' = [op |-> "get_all_solved_problems",
                result |-> get_all_solved_problems(data)]
    /\ UNCHANGED <<storeVars, today, appVars, solveVars, viewVars, diskVars, vim_arg,
                   raised, saved_log>>

\* midnight passes
DayPasses ==
    /\ today < MaxDay
    /\ today' = today + 1
    /\ UNCHANGED <<storeVars, appVars, solveVars, viewVars, diskVars, vim_arg,
                   raised, saved_log, last>>

StoreNext ==
    \/ \E phase_id \in PhaseIds, topic_name \in TopicNames, problem_name \in AddNames :
          StoreAddProblem(phase_id, topic_name, problem_name)
    \/ StoreGetAllSolved
    \/ DayPasses

StoreSpec == StoreInit /\ [][StoreNext]_vars

(***************************************************************************)
(* The store with its systems section: the three methods of ProgressData,  *)
(* from a document whose counters are in step.  toggle_systems_topic and   *)
(* add_problem write different sections of the document, so the calls of   *)
(* add_problem are few here: two that find their topic, one that finds the *)
(* phase alone, one that finds nothing.                                    *)
(***************************************************************************)
SystemsAdds ==
    {<<1, T1, TwoSum>>, <<1, T2, TwoSum>>, <<1, T9, Paren>>, <<3, T1, TwoSum>>}

SystemsInit ==
    /\ data \in {Doc(l, Counters(l)) : l \in InitLists}
    /\ today = 0
    /\ file = data
    /\ InitRest

SystemsNext ==
    \/ \E module_name \in ModuleNames, topic_name \in SystemsTopicNames :
          StoreToggle(module_name, topic_name)
    \/ \E call \in SystemsAdds : StoreAddProblem(call[1], call[2], call[3])
    \/ StoreGetAllSolved
    \/ DayPasses

SystemsSpec == SystemsInit /\ [][SystemsNext]_vars

(***************************************************************************)
(* What the claims about add_problem speak of.                             *)
(***************************************************************************)
PhaseIndex(d, phase_id) ==
    FirstIndex({i \in 1..Len(d.leetcode.phases) : d.leetcode.phases[i].id = phase_id})

TopicIndex(d, phase_id, topic_name) ==
    LET pi == PhaseIndex(d, phase_id)
    IN IF pi = 0 THEN 0
       ELSE LET topics == d.leetcode.phases[pi].topics
            IN FirstIndex({i \in 1..Len(topics) : topics[i].name = topic_name})

\* the phase id and the topic name find a topic
Matches(d, phase_id, topic_name) == TopicIndex(d, phase_id, topic_name) # 0

TargetTopic(d, phase_id, topic_name) ==
    d.leetcode.phases[PhaseIndex(d, phase_id)].topics[TopicIndex(d, phase_id, topic_name)]

\* every problems list, and every topic's counter, of the document
AllProblems(d) ==
    [i \in 1..Len(d.leetcode.phases) |->
        [j \in 1..Len(d.leetcode.phases[i].topics) |->
            d.leetcode.phases[i].topics[j].problems]]

AllTopicSolved(d) ==
    [i \in 1..Len(d.leetcode.phases) |->
        [j \in 1..Len(d.leetcode.phases[i].topics) |->
            d.leetcode.phases[i].topics[j].solved]]

AllPhaseSolved(d) ==
    [i \in 1..Len(d.leetcode.phases) |-> d.leetcode.phases[i].solved]

PhaseInStep(phase) == phase.solved = SumSolved(phase.topics)

PhasesInStep(d) ==
    \A i \in 1..Len(d.leetcode.phases) : PhaseInStep(d.leetcode.phases[i])

TotalInStep(d) == d.leetcode.total_solved = SumSolved(d.leetcode.phases)

\* this step is a call of add_problem; last' holds its arguments
AddStep ==
    /\ last'.op = "add_problem"
    /\ StoreAddProblem(last'.phase_id, last'.topic_name, last'.problem_name)

\* C1: with the phase and the topic found and the topic's problems distinct, a
\* call of add_problem leaves problem_name exactly once in that topic's
\* problems, and a call that repeats the one before it changes no problems
\* list and no solved counter.
C1_IdempotentInsert ==
    [][LET phase_id == last'.phase_id
           topic_name == last'.topic_name
           problem_name == last'.problem_name
       IN ( /\ AddStep
            /\ Matches(data, phase_id, topic_name)
            /\ Distinct(TargetTopic(data, phase_id, topic_name).problems) )
          => /\ Count(TargetTopic(data', phase_id, topic_name).problems, problem_name) = 1
             /\ SameAdd(phase_id, topic_name, problem_name)
                  => data'.leetcode = data.leetcode]_vars

\* a repeated call has returned, on a topic that holds the problem beside another
C1_Witness ==
    /\ last.op = "add_problem"
    /\ last.again
    /\ Matches(data, last.phase_id, last.topic_name)
    /\ LET problems == TargetTopic(data, last.phase_id, last.topic_name).problems
       IN /\ Distinct(problems)
          /\ Len(problems) = 2
          /\ Count(problems, last.problem_name) = 1

\* C2 as claimed: once add_problem has returned, every phase's solved is the
\* sum of its topics' solved and total_solved is the sum of the phases' solved.
C2_Claimed ==
    last.op = "add_problem" => PhasesInStep(data) /\ TotalInStep(data)

\* C2 as amended: once add_problem has returned, total_solved is the sum of the
\* phases' solved and the phase whose id matched, if any, has solved equal to
\* the sum of its topics' solved; every other phase is left as it was, so all
\* phases are in step after the call if they were before it.
C2_SumsRederived ==
    [][AddStep
       => LET pi == PhaseIndex(data, last'.phase_id)
          IN /\ TotalInStep(data')
             /\ pi # 0 => PhaseInStep(data'.leetcode.phases[pi])
             /\ \A i \in 1..Len(data.leetcode.phases) :
                   i # pi => data'.leetcode.phases[i] = data.leetcode.phases[i]
             /\ PhasesInStep(data) => PhasesInStep(data')]_vars

\* add_problem on phase 1 has returned: phase 1 and the total are in step,
\* phase 2 is still out of step
C2_Witness ==
    /\ last.op = "add_problem"
    /\ last.phase_id = 1
    /\ PhaseInStep(data.leetcode.phases[1])
    /\ TotalInStep(data)
    /\ ~PhaseInStep(data.leetcode.phases[2])

\* C3 as claimed: once add_problem has returned from a call that found its
\* phase and topic, that topic's solved is the length of its problems list.
C3_Claimed ==
    (last.op = "add_problem" /\ Matches(data, last.phase_id, last.topic_name))
    => LET topic == TargetTopic(data, last.phase_id, last.topic_name)
       IN topic.solved = Len(topic.problems)

\* C3 as amended: a call that finds its phase and topic appends a problem name
\* that is new and sets solved to the length of the list; it leaves the topic,
\* its solved counter included, as it was when the name is already there.
C3_SolvedOnAppend ==
    [][(AddStep /\ Matches(data, last'.phase_id, last'.topic_name))
       => LET before == TargetTopic(data, last'.phase_id, last'.topic_name)
              after == TargetTopic(data', last'.phase_id, last'.topic_name)
          IN IF last'.problem_name \in Range(before.problems)
             THEN after = before
             ELSE /\ after.problems = Append(before.problems, last'.problem_name)
                  /\ after.solved = Len(after.problems)]_vars

\* a call has appended to a topic that held a problem already
C3_Witness ==
    /\ last.op = "add_problem"
    /\ Matches(data, last.phase_id, last.topic_name)
    /\ LET topic == TargetTopic(data, last.phase_id, last.topic_name)
       IN /\ Len(topic.problems) = 2
          /\ topic.problems[2] = last.problem_name
          /\ topic.problems[1] # last.problem_name
          /\ topic.solved = 2

SystemsPlaces(d, module_name, topic_name) ==
    UNION {{<<i, j>> : j \in {k \in 1..Len(d.systems.modules[i].topics) :
                                d.systems.modules[i].topics[k].name = topic_name}} :
              i \in {k \in 1..Len(d.systems.modules) :
                        d.systems.modules[k].name = module_name}}

SystemsMatches(d, module_name, topic_name) ==
    SystemsPlaces(d, module_name, topic_name) # {}

\* this step is a call of toggle_systems_topic; last' holds its arguments
ToggleStep ==
    /\ last'.op = "toggle_systems_topic"
    /\ StoreToggle(last'.module_name, last'.topic_name)

\* C12: a call of toggle_systems_topic that finds its module and topic flips
\* that topic's completed, returns the new value and leaves every other topic
\* and every name as it was; a call that repeats the one before it returns
\* the systems section, and the flag, to what they were before the first.
C12_ToggleFlips ==
    [][(ToggleStep /\ SystemsMatches(data, last'.module_name, last'.topic_name))
       => LET place == CHOOSE ij \in SystemsPlaces(data, last'.module_name,
                                                  last'.topic_name) : TRUE
              i == place[1]
              j == place[2]
              before == data.systems.modules[i].topics[j].completed
          IN /\ data'.systems.modules[i].topics[j].completed = ~before
             /\ last'.result = ~before
             /\ data'.systems =
                   [data.systems EXCEPT !.modules[i].topics[j].completed = ~before]
             /\ data'.leetcode = data.leetcode
             /\ SameToggle(last'.module_name, last'.topic_name)
                  => /\ data'.systems = last.before
                     /\ last'.result = last.before.modules[i].topics[j].completed]_vars

\* M1's topic S2, completed at the start, was toggled twice in succession
C12_Witness ==
    /\ last.op = "toggle_systems_topic"
    /\ last.again
    /\ last.module_name = "M1"
    /\ last.topic_name = "S2"
    /\ last.result = TRUE
    /\ data.systems = Systems

\* C13: a call of toggle_systems_topic whose names find no topic returns
\* False, raises nothing and leaves the document and progress.json, the date
\* of the last update included, as they were.
C13_ToggleMiss ==
    [][(ToggleStep /\ ~SystemsMatches(data, last'.module_name, last'.topic_name))
       => /\ last'.result = FALSE
          /\ data' = data
          /\ file' = file
          /\ ~raised'
          /\ running' = running]_vars

\* a day after the last save, a call named a module that is there and a topic
\* that only the other module holds
C13_Witness ==
    /\ last.op = "toggle_systems_topic"
    /\ last.module_name = "M2"
    /\ last.topic_name = "S2"
    /\ last.result = FALSE
    /\ today = 1
    /\ file.meta.last_updated = 0
    /\ data.systems # Systems

\* the places <<phase, topic, problem>> of the recorded problems
ProblemPlaces(d) ==
    UNION {UNION {{<<i, j, n>> : n \in 1..Len(d.leetcode.phases[i].topics[j].problems)} :
                     j \in 1..Len(d.leetcode.phases[i].topics)} :
              i \in 1..Len(d.leetcode.phases)}

\* the number of problems recorded before this place, in document order
PlacesBefore(d, place) ==
    Cardinality({q \in ProblemPlaces(d) :
                    \/ q[1] < place[1]
                    \/ q[1] = place[1] /\ q[2] < place[2]
                    \/ q[1] = place[1] /\ q[2] = place[2] /\ q[3] < place[3]})

\* C14: get_all_solved_problems returns one tuple (problem, topic name, phase
\* name, phase id) per recorded problem, in document order: as many tuples as
\* there are recorded problems, none exactly when every problems list is empty.
C14_ListsEveryProblem ==
    last.op = "get_all_solved_problems"
    => /\ Len(last.result) = Cardinality(ProblemPlaces(data))
       /\ \A place \in ProblemPlaces(data) :
             LET phase == data.leetcode.phases[place[1]]
                 topic == phase.topics[place[2]]
             IN last.result[PlacesBefore(data, place) + 1] =
                   <<topic.problems[place[3]], topic.name, phase.name, phase.id>>
       /\ (last.result = <<>>) <=>
             \A i \in 1..Len(data.leetcode.phases) :
                \A j \in 1..Len(data.leetcode.phases[i].topics) :
                   data.leetcode.phases[i].topics[j].problems = <<>>

\* the list was taken of a document with problems in every topic, one of them
\* recorded twice
C14_Witness ==
    /\ last.op = "get_all_solved_problems"
    /\ Len(last.result) >= 4
    /\ last.result[1] = last.result[2]
    /\ \A i \in 1..2 : \A j \in 1..Len(data.leetcode.phases[i].topics) :
          data.leetcode.phases[i].topics[j].problems # <<>>

\* C20: progress.json and the in-memory document agree in every state, and
\* when add_problem returns, whatever it found, or toggle_systems_topic
\* returns from a call that found its topic, progress.json holds the whole
\* in-memory document with last_updated the current date.
C20_PersistsBeforeReturn ==
    /\ [](file = data)
    /\ [][AddStep => (file' = data' /\ data'.meta.last_updated = today)]_vars
    /\ [][(ToggleStep /\ SystemsMatches(data, last'.module_name, last'.topic_name))
          => (file' = data' /\ data'.meta.last_updated = today)]_vars

\* a day after the start, add_problem has returned from a call that found no
\* phase, after a toggle
C20_Witness ==
    /\ last.op = "add_problem"
    /\ PhaseIndex(data, last.phase_id) = 0
    /\ today = 1
    /\ file.meta.last_updated = 1
    /\ file = data
    /\ data.systems # Systems

(***************************************************************************)
(* File names and the files on disk.                                       *)
(***************************************************************************)
\* str.replace(ch, rep): every occurrence of the character ch becomes rep
RECURSIVE Replace(_, _, _)
Replace(s, ch, rep) ==
    IF s = <<>> THEN <<>>
    ELSE (IF Head(s) = ch THEN rep ELSE <<Head(s)>>) \o Replace(Tail(s), ch, rep)

\* problem_name.replace(" ", "_").replace("(", "").replace(")", "").replace("/", "_")
clean_name(problem_name) ==
    Replace(Replace(Replace(Replace(problem_name, " ", <<"_">>), "(", <<>>), ")", <<>>),
            "/", <<"_">>)

DotPy == <<".", "p", "y">>
SolutionPy == <<"s", "o", "l", "u", "t", "i", "o", "n">> \o DotPy

\* the file name action_edit gives the current problem
Filename(problem) ==
    IF problem # None THEN clean_name(problem.name) \o DotPy ELSE SolutionPy

\* temp_dir / filename
PathIn(dir, filename) == [dir |-> dir, name |-> filename]

\* what a file may hold: nothing, or some text
Empty == ""
Contents == {Empty, "x"}

\* what the editor may do before it exits: leave the file as it is, write
\* it, or remove it
EditorOutcomes ==
    {[kind |-> "quit", content |-> Empty], [kind |-> "remove", content |-> Empty]}
    \cup {[kind |-> "write", content |-> c] : c \in Contents}

\* the files after subprocess.run(["vim", path]) returned
EditorRuns(dirs, files, path, outcome) ==
    CASE outcome.kind = "write" /\ path.dir \in dirs -> (path :> outcome.content) @@ files
      [] outcome.kind = "remove" -> [q \in DOMAIN files \ {path} |-> files[q]]
      [] OTHER -> files

\* file_path.exists() and file_path.stat().st_size > 0
Saved_ExistsOnly(files, path) == path \in DOMAIN files

Saved(files, path) == path \in DOMAIN files /\ files[path] # Empty

\* shutil.rmtree(dir): raises when the directory is not there
rmtree(dirs, files, dir) ==
    [dirs |-> dirs \ {dir},
     files |-> [q \in {r \in DOMAIN files : r.dir # dir} |-> files[q]],
     raised |-> dir \notin dirs]

\* the clean-up without its exists() test
cleanup_Unguarded(dirs, files, dir) == rmtree(dirs, files, dir)

\* if self.temp_dir.exists(): shutil.rmtree(self.temp_dir)
cleanup(dirs, files, dir) ==
    IF dir \in dirs THEN rmtree(dirs, files, dir)
    ELSE [dirs |-> dirs, files |-> files, raised |-> FALSE]

(***************************************************************************)
(* Displayed text: a sequence of segments.                                 *)
(***************************************************************************)
Segment(kind, arg) == [kind |-> kind, arg |-> arg]

\* "Problem: ...\nTopic: ...\nPhase: ..."
ProblemText(problem) ==
    << Segment("problem", <<problem.name, problem.topic, problem.phase>>) >>

\* "\n\n[Solution saved to: <filename>]"
SavedNotice(filename) == << Segment("saved", <<filename>>) >>

NoSolvedText == << Segment("no solved problems", <<>>) >>
NoSolutionsText == << Segment("no solutions saved", <<>>) >>

\* "File: <filename>\n=====\n\n<content>"
FileText(filename, content) == << Segment("file", <<filename, content>>) >>

\* "Error reading file: <the OSError>"
ErrorText(path) == << Segment("error", <<path>>) >>

\* text.split("\n\n[Solution saved")[0]: the text before its first saved notice
BaseText(text) ==
    LET cut == FirstIndex({i \in 1..Len(text) : text[i].kind = "saved"})
    IN IF cut = 0 THEN text ELSE SubSeq(text, 1, cut - 1)

(***************************************************************************)
(* SolveModeScreen                                                         *)
(***************************************************************************)
Top == screens[Len(screens)]
Pop(stack) == SubSeq(stack, 1, Len(stack) - 1)
On(screen) == running /\ Top = screen

\* tempfile.mkdtemp: a directory that does not exist yet
mkdtemp(dirs) ==
    CHOOSE d \in 1..Cardinality(dirs) + 1 :
        d \notin dirs /\ \A e \in 1..Cardinality(dirs) + 1 : e \notin dirs => d <= e

\* DashboardScreen.action_solve: SolveModeScreen.__init__ makes the directory
action_solve ==
    /\ On("dashboard")
    /\ temp_dir' = mkdtemp(fs_dirs)
    /\ fs_dirs' = fs_dirs \cup {temp_dir'}
    /\ current_problem' = None
    /\ current_problem_text' = <<>>
    /\ problem_text' = <<>>
    /\ session_solutions' = <<>>
    /\ screens' = Append(screens, "solve")
    /\ UNCHANGED <<storeVars, today, running, viewVars, fs_files, vim_arg, raised,
                   saved_log, last>>

\* a draw that always takes the first problem
Choices_First(solved_problems) == {1}

\* random.choice(solved_problems): the places it may draw from
Choices(solved_problems) == 1..Len(solved_problems)

\* the dict action_generate makes of the tuple it drew
CurrentProblem(choice) ==
    [name |-> choice[1], topic |-> choice[2], phase |-> choice[3],
     phase_id |-> choice[4]]

\* the body of action_generate
Generate ==
    LET solved_problems == get_all_solved_problems(data)
    IN /\ IF solved_problems = <<>>
          THEN /\ problem_text' = NoSolvedText
               /\ UNCHANGED <<current_problem, current_problem_text>>
          ELSE \E problem \in {CurrentProblem(solved_problems[i]) :
                                   i \in Choices(solved_problems)} :
                  /\ current_problem' = problem
                  /\ current_problem_text' = ProblemText(problem)
                  /\ problem_text' = ProblemText(problem)
       /\ UNCHANGED <<today, appVars, session_solutions, temp_dir, viewVars,
                      diskVars, vim_arg, raised, saved_log, last>>

\* action_generate that also persists the store
action_generate_Saving ==
    /\ On("solve")
    /\ Generate
    /\ data' = save(data, today)
    /\ file' = data'

action_generate ==
    /\ On("solve")
    /\ Generate
    /\ UNCHANGED storeVars

\* action_next calls action_generate
action_next ==
    /\ On("solve")
    /\ Generate
    /\ UNCHANGED storeVars

\* "no entry": None, which "if existing_solution" reads like an empty tuple
NoSolution == <<>>

\* a lookup that never finds the entry
FindSolution_Never(solutions, filename) == NoSolution

\* next((sol for sol in self.session_solutions if sol[0] == filename), None)
FindSolution(solutions, filename) ==
    LET i == FirstIndex({j \in 1..Len(solutions) : solutions[j][1] = filename})
    IN IF i = 0 THEN NoSolution ELSE solutions[i]

\* the new entry put first
RecordSolution_Front(solutions, filename, path) == << <<filename, path>> >> \o solutions

\* self.session_solutions.append((filename, str(file_path)))
RecordSolution(solutions, filename, path) == Append(solutions, <<filename, path>>)

action_edit ==
    /\ On("solve")
    /\ \E outcome \in EditorOutcomes :
          LET filename == Filename(current_problem)
              existing_solution == FindSolution(session_solutions, filename)
              file_path == IF existing_solution # NoSolution THEN existing_solution[2]
                           ELSE PathIn(temp_dir, filename)
              files == EditorRuns(fs_dirs, fs_files, file_path, outcome)
              saved == Saved(files, file_path)
          IN /\ vim_arg' = file_path
             /\ fs_files' = files
             /\ IF saved /\ existing_solution = NoSolution
                THEN /\ session_solutions' =
                            RecordSolution(session_solutions, filename, file_path)
                     /\ current_problem_text' =
                            BaseText(current_problem_text) \o SavedNotice(filename)
                     /\ problem_text' = current_problem_text'
                ELSE UNCHANGED <<session_solutions, current_problem_text, problem_text>>
             /\ saved_log' =
                   IF /\ outcome.kind = "write"
                      /\ saved
                      /\ current_problem # None
                      /\ current_problem.name \notin Range(saved_log)
                   THEN Append(saved_log, current_problem.name)
                   ELSE saved_log
             /\ last' = [op |-> "edit", existing |-> existing_solution # NoSolution,
                         outcome |-> outcome.kind]
    /\ UNCHANGED <<storeVars, today, appVars, current_problem, temp_dir, viewVars,
                   fs_dirs, raised>>

(***************************************************************************)
(* ViewSolutionsScreen                                                     *)
(***************************************************************************)
\* ShownFile that shows an empty file where there is none
ShownFile_Stale(files, filename, path) ==
    FileText(filename, IF path \in DOMAIN files THEN files[path] ELSE Empty)

\* the #file_content Label after show_solution_at_index read, or failed to
\* read, the file
ShownFile(files, filename, path) ==
    IF path \in DOMAIN files THEN FileText(filename, files[path]) ELSE ErrorText(path)

\* show_solution_at_index(idx): idx counts from 0
show_solution_at_index(idx) ==
    IF 0 <= idx /\ idx < Len(session_solutions)
    THEN LET filename == session_solutions[idx + 1][1]
             filepath == session_solutions[idx + 1][2]
         IN /\ selected_index' = idx
            /\ current_filepath' = filepath
            /\ file_content' = ShownFile(fs_files, filename, filepath)
    ELSE UNCHANGED viewVars

\* SolveModeScreen.action_view; the pushed screen's __init__, compose and on_mount
action_view ==
    /\ On("solve")
    /\ IF session_solutions = <<>>
       THEN /\ current_problem_text' = NoSolutionsText
            /\ problem_text' = NoSolutionsText
            /\ UNCHANGED <<screens, viewVars>>
       ELSE /\ screens' = Append(screens, "view")
            /\ show_solution_at_index(0)
            /\ UNCHANGED <<current_problem_text, problem_text>>
    /\ UNCHANGED <<storeVars, today, running, current_problem, session_solutions,
                   temp_dir, diskVars, vim_arg, raised, saved_log, last>>

action_navigate_up ==
    /\ On("view")
    /\ IF selected_index > 0
       THEN show_solution_at_index(selected_index - 1)
       ELSE UNCHANGED viewVars
    /\ UNCHANGED <<storeVars, today, appVars, solveVars, diskVars, vim_arg, raised,
                   saved_log, last>>

\* action_navigate_down that goes round to the first entry
action_navigate_down_Wrap ==
    /\ On("view")
    /\ IF selected_index < Len(session_solutions) - 1
       THEN show_solution_at_index(selected_index + 1)
       ELSE show_solution_at_index(0)
    /\ UNCHANGED <<storeVars, today, appVars, solveVars, diskVars, vim_arg, raised,
                   saved_log, last>>

action_navigate_down ==
    /\ On("view")
    /\ IF selected_index < Len(session_solutions) - 1
       THEN show_solution_at_index(selected_index + 1)
       ELSE UNCHANGED viewVars
    /\ UNCHANGED <<storeVars, today, appVars, solveVars, diskVars, vim_arg, raised,
                   saved_log, last>>

\* action_edit_selected; action_select calls it.  Path(...).name is the file
\* name of current_filepath; a failed read is passed over.
action_edit_selected ==
    /\ On("view")
    /\ IF current_filepath # None
       THEN \E outcome \in EditorOutcomes :
               LET files == EditorRuns(fs_dirs, fs_files, current_filepath, outcome)
               IN /\ vim_arg' = current_filepath
                  /\ fs_files' = files
                  /\ file_content' =
                        IF current_filepath \in DOMAIN files
                        THEN FileText(current_filepath.name, files[current_filepath])
                        ELSE file_content
                  /\ last' = [op |-> "edit_selected", outcome |-> outcome.kind]
       ELSE UNCHANGED <<vim_arg, fs_files, file_content, last>>
    /\ UNCHANGED <<storeVars, today, appVars, solveVars, selected_index,
                   current_filepath, fs_dirs, raised, saved_log>>

\* ViewSolutionsScreen.action_back: the review screen is dropped
view_action_back ==
    /\ On("view")
    /\ screens' = Pop(screens)
    /\ selected_index' = 0
    /\ current_filepath' = None
    /\ file_content' = <<>>
    /\ UNCHANGED <<storeVars, today, running, solveVars, diskVars, vim_arg, raised,
                   saved_log, last>>

\* SolveModeScreen.action_back: clean up, then drop the solve screen and with
\* it the session's state.  An exception of the clean-up ends the handler, and
\* the App, before pop_screen.
action_back ==
    /\ On("solve")
    /\ LET result == cleanup(fs_dirs, fs_files, temp_dir)
       IN /\ fs_dirs' = result.dirs
          /\ fs_files' = result.files
          /\ raised' = result.raised
          /\ running' = ~result.raised
          /\ IF result.raised
             THEN UNCHANGED <<screens, solveVars, vim_arg, saved_log>>
             ELSE /\ screens' = Pop(screens)
                  /\ current_problem' = None
                  /\ current_problem_text' = <<>>
                  /\ problem_text' = <<>>
                  /\ session_solutions' = <<>>
                  /\ temp_dir' = NoDir
                  /\ vim_arg' = None
                  /\ saved_log' = <<>>
          /\ last' = [op |-> "back", existed |-> temp_dir \in fs_dirs,
                      had_files |-> \E q \in DOMAIN fs_files : q.dir = temp_dir]
    /\ UNCHANGED <<storeVars, today, viewVars>>

(***************************************************************************)
(* The dashboard, the App and the world around the program.                *)
(***************************************************************************)
\* DashboardScreen.action_quit: self.app.exit()
action_quit ==
    /\ On("dashboard")
    /\ running' = FALSE
    /\ UNCHANGED <<storeVars, today, screens, solveVars, viewVars, diskVars,
                   vim_arg, raised, saved_log, last>>

\* the App's own quit key, bound on every screen, or the process being ended:
\* the program exits while the solve screen or the review screen is open
ExitInSession ==
    /\ running
    /\ Top \in {"solve", "view"}
    /\ running' = FALSE
    /\ UNCHANGED <<storeVars, today, screens, solveVars, viewVars, diskVars,
                   vim_arg, raised, saved_log, last>>

\* another process removes the session directory while the session is open
DirRemoved ==
    /\ running
    /\ Top \in {"solve", "view"}
    /\ temp_dir \in fs_dirs
    /\ LET result == rmtree(fs_dirs, fs_files, temp_dir)
       IN /\ fs_dirs' = result.dirs
          /\ fs_files' = result.files
    /\ UNCHANGED <<storeVars, today, appVars, solveVars, viewVars, vim_arg, raised,
                   saved_log, last>>

\* the documents the program starts from: one with solved problems in two
\* phases, one with none
StartLists == {<< <<TwoSum, TwoSumSlash>>, <<>>, <<Paren>> >>, << <<>>, <<>>, <<>> >>}

StartDocs == {Doc(l, Counters(l)) : l \in StartLists}

Init ==
    /\ data \in StartDocs
    /\ file = data
    /\ today = MaxDay
    /\ InitRest

Next ==
    \/ action_solve
    \/ action_generate
    \/ action_next
    \/ action_edit
    \/ action_view
    \/ action_navigate_up
    \/ action_navigate_down
    \/ action_edit_selected
    \/ view_action_back
    \/ action_back
    \/ action_quit
    \/ ExitInSession
    \/ DirRemoved

Spec == Init /\ [][Next]_vars

(***************************************************************************)
(* The dashboard and the add-problem form, with progress.json removed or   *)
(* rewritten by other programs while the dashboard is shown.  A practice   *)
(* session neither reads nor writes the progress document, so the          *)
(* dashboard is driven here without one.                                   *)
(***************************************************************************)
\* progress.json is not there; progress.json holds no JSON
Absent == [absent |-> TRUE]
Garbage == [garbage |-> TRUE]

\* str.strip(): leading and trailing blanks go
RECURSIVE lstrip(_)
lstrip(s) == IF s # <<>> /\ Head(s) = " " THEN lstrip(Tail(s)) ELSE s

RECURSIVE rstrip(_)
rstrip(s) ==
    IF s # <<>> /\ s[Len(s)] = " " THEN rstrip(SubSeq(s, 1, Len(s) - 1)) ELSE s

strip(s) == rstrip(lstrip(s))

Digits == <<"0", "1", "2", "3", "4", "5", "6", "7", "8", "9">>

DigitValue(c) == (CHOOSE i \in 1..10 : Digits[i] = c) - 1

RECURSIVE Decimal(_)
Decimal(s) ==
    IF s = <<>> THEN 0 ELSE 10 * Decimal(SubSeq(s, 1, Len(s) - 1)) + DigitValue(s[Len(s)])

\* int(text) returned a number, or raised ValueError
Parsed(n) == [ok |-> TRUE, value |-> n]
ValueError == [ok |-> FALSE, value |-> 0]

\* int() that reads every text it cannot parse as 1
int_Lenient(text) ==
    LET t == strip(text)
    IN IF t # <<>> /\ \A i \in 1..Len(t) : t[i] \in Range(Digits)
       THEN Parsed(Decimal(t))
       ELSE Parsed(1)

\* int(text): blanks around, an optional sign, decimal digits
int(text) ==
    LET t == strip(text)
        signed == t # <<>> /\ Head(t) \in {"+", "-"}
        digits == IF signed THEN Tail(t) ELSE t
    IN IF digits # <<>> /\ \A i \in 1..Len(digits) : digits[i] \in Range(Digits)
       THEN Parsed(IF signed /\ Head(t) = "-" THEN 0 - Decimal(digits)
                   ELSE Decimal(digits))
       ELSE ValueError

\* what the user may have typed into the three inputs of the form
PhaseInputs ==
    {<<"1">>, <<" ", "1">>, <<"5">>, <<"6">>, <<"0">>, <<"-", "1">>, <<"x">>, <<>>}
TopicInputs == {T1, <<" ">> \o T1 \o <<" ">>, T9, <<" ">>}
ProblemInputs == {TwoSum, <<" ">> \o Paren, <<>>}

\* DashboardScreen.action_add_problem: the form is pushed
action_add_problem ==
    /\ On("dashboard")
    /\ screens' = Append(screens, "add")
    /\ UNCHANGED <<storeVars, today, running, solveVars, viewVars, diskVars,
                   vim_arg, raised, saved_log, last>>

\* the test of the add handler
FormValid(phase_id, topic_name, problem_name) ==
    /\ phase_id.ok
    /\ 1 <= phase_id.value /\ phase_id.value <= 5
    /\ topic_name # <<>>
    /\ problem_name # <<>>

\* AddProblemScreen.add_problem, the handler of the Add button, with the
\* dismiss(True) that has handle_result put a fresh dashboard in place
AddProblemScreen_add_problem(phase_input, topic_input, problem_input) ==
    LET phase_id == int(phase_input)
        topic_name == strip(topic_input)
        problem_name == strip(problem_input)
        valid == FormValid(phase_id, topic_name, problem_name)
    IN /\ On("add")
       /\ IF valid
          THEN /\ data' = save(add_problem(data, phase_id.value, topic_name,
                                           problem_name), today)
               /\ file' = data'
               /\ screens' = Append(Pop(Pop(screens)), "dashboard")
          ELSE UNCHANGED <<storeVars, screens>>
       /\ last' = [op |-> "form", phase_input |-> phase_input,
                   topic_input |-> topic_input, problem_input |-> problem_input,
                   called |-> valid,
                   args |-> IF valid THEN <<phase_id.value, topic_name, problem_name>>
                            ELSE <<>>]
       /\ UNCHANGED <<today, running, solveVars, viewVars, diskVars, vim_arg,
                      raised, saved_log>>

\* AddProblemScreen.cancel, the handler of the Cancel button: dismiss(False)
AddProblemScreen_cancel ==
    /\ On("add")
    /\ screens' = Pop(screens)
    /\ UNCHANGED <<storeVars, today, running, solveVars, viewVars, diskVars,
                   vim_arg, raised, saved_log, last>>

\* the escape key of the form: dismiss() with no result
action_dismiss ==
    /\ On("add")
    /\ screens' = Pop(screens)
    /\ UNCHANGED <<storeVars, today, running, solveVars, viewVars, diskVars,
                   vim_arg, raised, saved_log, last>>

\* ProgressData.load: raises when progress.json is not there or holds no JSON
load(f) ==
    IF f \in {Absent, Garbage}
    THEN [raised |-> TRUE, data |-> f]
    ELSE [raised |-> FALSE, data |-> f]

\* DashboardScreen.action_refresh: nothing catches what load() raises, and
\* the exception ends the App
action_refresh ==
    /\ On("dashboard")
    /\ LET loaded == load(file)
       IN /\ raised' = loaded.raised
          /\ running' = ~loaded.raised
          /\ data' = IF loaded.raised THEN data ELSE loaded.data
          /\ screens' = IF loaded.raised THEN screens
                        ELSE Append(Pop(screens), "dashboard")
          /\ last' = [op |-> "refresh", raised |-> loaded.raised]
    /\ UNCHANGED <<file, today, solveVars, viewVars, diskVars, vim_arg, saved_log>>

\* another program removes progress.json
FileRemoved ==
    /\ running
    /\ file # Absent
    /\ file' = Absent
    /\ UNCHANGED <<data, today, appVars, solveVars, viewVars, diskVars, vim_arg,
                   raised, saved_log, last>>

\* another program rewrites progress.json: with no JSON, or with a document
FileAltered ==
    /\ running
    /\ \E f \in {Garbage} \cup StartDocs :
          /\ f # file
          /\ file' = f
    /\ UNCHANGED <<data, today, appVars, solveVars, viewVars, diskVars, vim_arg,
                   raised, saved_log, last>>

DashInit ==
    /\ data \in StartDocs
    /\ file = data
    /\ today = 0
    /\ InitRest

DashNext ==
    \/ action_add_problem
    \/ \E phase_input \in PhaseInputs, topic_input \in TopicInputs,
          problem_input \in ProblemInputs :
          AddProblemScreen_add_problem(phase_input, topic_input, problem_input)
    \/ AddProblemScreen_cancel
    \/ action_dismiss
    \/ action_refresh
    \/ action_quit
    \/ FileRemoved
    \/ FileAltered
    \/ DayPasses

DashSpec == DashInit /\ [][DashNext]_vars

\* C11: once the store is loaded, no action of the user leaves an exception
\* uncaught, also when progress.json was removed or rewritten meanwhile.
C11_Claimed == ~raised

\* this step is a press of the Add button; last' holds the three inputs
FormStep ==
    /\ last'.op = "form"
    /\ AddProblemScreen_add_problem(last'.phase_input, last'.topic_input,
                                    last'.problem_input)

\* a text without the blanks before its first and after its last other character
Trimmed(text) ==
    LET inked == {i \in 1..Len(text) : text[i] # " "}
    IN IF inked = {} THEN <<>>
       ELSE SubSeq(text, CHOOSE i \in inked : \A j \in inked : i <= j,
                         CHOOSE i \in inked : \A j \in inked : j <= i)

\* the texts that read as the integer n of 1..5: blanks around, an optional
\* plus sign, zeros, then the digit of n
ReadsAs(text, n) ==
    LET t == Trimmed(text)
        unsigned == IF t # <<>> /\ t[1] = "+" THEN SubSeq(t, 2, Len(t)) ELSE t
    IN /\ unsigned # <<>>
       /\ unsigned[Len(unsigned)] = <<"1", "2", "3", "4", "5">>[n]
       /\ \A i \in 1..Len(unsigned) - 1 : unsigned[i] = "0"

\* C21: a press of the Add button calls add_problem exactly when the phase
\* input reads as an integer of 1..5 and the topic and the problem name are
\* not empty once trimmed, and it passes that integer and the trimmed texts;
\* on every other input the document, progress.json and the form stay as they
\* were and nothing is raised.
C21_FormCallsOnValidInput ==
    [][FormStep
       => LET topic_name == Trimmed(last'.topic_input)
              problem_name == Trimmed(last'.problem_input)
              numbers == {n \in 1..5 : ReadsAs(last'.phase_input, n)}
              valid == numbers # {} /\ topic_name # <<>> /\ problem_name # <<>>
          IN /\ last'.called <=> valid
             /\ valid =>
                  \E n \in numbers :
                     /\ last'.args = <<n, topic_name, problem_name>>
                     /\ data' = save(add_problem(data, n, topic_name, problem_name),
                                     today)
                     /\ file' = data'
             /\ ~valid => /\ data' = data
                          /\ file' = file
                          /\ screens' = screens
             /\ ~raised'
             /\ running']_vars

\* the form was sent with blanks around all three inputs and the trimmed
\* problem name has been recorded in phase 1
C21_Witness ==
    /\ last.op = "form"
    /\ last.called
    /\ last.phase_input = <<" ", "1">>
    /\ last.topic_input = <<" ">> \o T1 \o <<" ">>
    /\ last.problem_input = <<" ">> \o Paren
    /\ last.args = <<1, T1, Paren>>
    /\ Paren \in Range(data.leetcode.phases[1].topics[1].problems)
    /\ file = data
    /\ On("dashboard")

(***************************************************************************)
(* What the claims about the practice session speak of.                    *)
(***************************************************************************)
\* a practice session is open: its solve screen is on the stack of a running App
SessionOpen == running /\ "solve" \in Range(screens)

\* the file name of a problem name
FileOf(problem_name) == clean_name(problem_name) \o DotPy

\* the file names of the entries, in order
EntryNames == [i \in 1..Len(session_solutions) |-> session_solutions[i][1]]

\* C5: while the solve screen or the review screen is on top, no step changes
\* the progress document or progress.json.
C5_SessionLeavesStore ==
    [][(running /\ Top \in {"solve", "view"}) => (data' = data /\ file' = file)]_vars

\* a problem was generated, solutions were saved, and the second one was
\* edited from the review screen
C5_Witness ==
    /\ On("view")
    /\ last.op = "edit_selected"
    /\ current_problem # None
    /\ selected_index = 1
    /\ vim_arg = session_solutions[2][2]
    /\ data = file

\* C6: the entries never hold two entries of one file name, and action_edit
\* for a file name that has an entry runs the editor on that entry's path and
\* leaves the entries as they are, whatever the editor does.
C6_OneEntryPerFilename ==
    /\ [](Distinct(EntryNames))
    /\ [][\A i \in 1..Len(session_solutions) :
             (action_edit /\ session_solutions[i][1] = Filename(current_problem))
             => /\ vim_arg' = session_solutions[i][2]
                /\ session_solutions' = session_solutions]_vars

\* the editor was opened again on a recorded solution and wrote the file
C6_Witness ==
    /\ On("solve")
    /\ last.op = "edit"
    /\ last.existing
    /\ last.outcome = "write"
    /\ Len(session_solutions) = 1
    /\ vim_arg = session_solutions[1][2]
    /\ fs_files[vim_arg] = Empty

\* the entries of named problems: all but the one of the generic file name
IsNamed(entry) == entry[1] # SolutionPy
NamedSolutions == SelectSeq(session_solutions, IsNamed)

\* the entries that two problems saved in this order should have left
TwoEntries(first, second) ==
    << <<FileOf(first), PathIn(temp_dir, FileOf(first))>>,
       <<FileOf(second), PathIn(temp_dir, FileOf(second))>> >>

\* C7: once the editor was opened for two different problem names
\* and wrote a non-empty file for each, the entries of named problems are two,
\* in the order of the first non-empty save.
C7_Claimed ==
    Len(saved_log) = 2 => NamedSolutions = TwoEntries(saved_log[1], saved_log[2])

\* What the code does where C7 fails: two problem names whose cleaned file
\* names differ get two entries in the order of their first non-empty save;
\* two names with one cleaned file name share one file and one entry.
C7_TwoEntriesInOrder ==
    /\ (Len(saved_log) = 2 /\ FileOf(saved_log[1]) # FileOf(saved_log[2]))
          => NamedSolutions = TwoEntries(saved_log[1], saved_log[2])
    /\ (Len(saved_log) = 2 /\ FileOf(saved_log[1]) = FileOf(saved_log[2]))
          => NamedSolutions = << <<FileOf(saved_log[1]),
                                   PathIn(temp_dir, FileOf(saved_log[1]))>> >>

\* two problems with different file names were saved, the one in parentheses first
C7_Witness ==
    /\ saved_log = <<Paren, TwoSum>>
    /\ Len(session_solutions) = 2
    /\ session_solutions[1][1] = <<"c">> \o DotPy
    /\ session_solutions[2][1] = <<"a", "_", "b">> \o DotPy

\* the saved notices of a text
Notices(text) == SelectSeq(text, LAMBDA seg : seg.kind = "saved")

\* C8: action_edit appends (filename, path) to the entries exactly when the
\* file at the path is there and non-empty once the editor has returned and
\* the file name had no entry; it then ends the display text with the notice
\* for that file name, the only notice in it.  Otherwise entries and display
\* text are as they were.
C8_RecordedOnFirstSave ==
    [][action_edit
       => LET filename == Filename(current_problem)
              had == \E i \in 1..Len(session_solutions) :
                        session_solutions[i][1] = filename
              path == vim_arg'
              nonempty == path \in DOMAIN fs_files' /\ fs_files'[path] # Empty
          IN IF nonempty /\ ~had
             THEN /\ session_solutions' = Append(session_solutions, <<filename, path>>)
                  /\ current_problem_text' # current_problem_text
                  /\ Notices(current_problem_text') = SavedNotice(filename)
                  /\ current_problem_text'[Len(current_problem_text')]
                        = SavedNotice(filename)[1]
                  /\ problem_text' = current_problem_text'
             ELSE /\ session_solutions' = session_solutions
                  /\ current_problem_text' = current_problem_text
                  /\ problem_text' = problem_text]_vars

\* a second solution was recorded on its first non-empty save, the notice of
\* the first one gone from the text
C8_Witness ==
    /\ last.op = "edit"
    /\ ~last.existing
    /\ last.outcome = "write"
    /\ Len(session_solutions) = 2
    /\ Notices(current_problem_text) = SavedNotice(session_solutions[2][1])

\* C9: when no practice session is open (the solve screen was left,
\* or the program has ended), no session directory and no session file exists.
C9_Claimed ==
    ~SessionOpen => (fs_dirs = {} /\ DOMAIN fs_files = {})

\* C10: action_back leaves the session directory and every file in it absent
\* and raises nothing, whether or not the directory was still there; cleaning
\* up once more raises nothing and changes nothing.
C10_CleanupIdempotent ==
    [][action_back
       => LET again == cleanup(fs_dirs', fs_files', temp_dir)
          IN /\ temp_dir \notin fs_dirs'
             /\ \A q \in DOMAIN fs_files' : q.dir # temp_dir
             /\ ~raised'
             /\ running'
             /\ ~again.raised
             /\ again.dirs = fs_dirs'
             /\ again.files = fs_files']_vars

\* the solve screen was left while its directory held files
C10_Witness ==
    /\ last.op = "back"
    /\ last.existed
    /\ last.had_files
    /\ fs_dirs = {}
    /\ DOMAIN fs_files = {}
    /\ On("dashboard")

\* the recorded problems, as action_generate makes a current problem of them
SolvedProblems(d) ==
    {[name |-> d.leetcode.phases[place[1]].topics[place[2]].problems[place[3]],
      topic |-> d.leetcode.phases[place[1]].topics[place[2]].name,
      phase |-> d.leetcode.phases[place[1]].name,
      phase_id |-> d.leetcode.phases[place[1]].id] : place \in ProblemPlaces(d)}

\* C15: action_generate (and action_next) shows the "no solved problems" text
\* and leaves the current problem as it was exactly when no problem is
\* recorded; otherwise it makes a recorded problem the current one, and in
\* every state of the solve screen each recorded problem is a possible
\* outcome.  The current problem is always None or a recorded problem.
C15_GenerateDrawsRecorded ==
    /\ [][(action_generate \/ action_next)
          => IF SolvedProblems(data) = {}
             THEN /\ problem_text' = NoSolvedText
                  /\ current_problem' = current_problem
             ELSE /\ current_problem' \in SolvedProblems(data)
                  /\ problem_text' = ProblemText(current_problem')
                  /\ problem_text' # NoSolvedText]_vars
    /\ [](On("solve")
          => \A problem \in SolvedProblems(data) :
                /\ ENABLED (current_problem' = problem /\ action_generate)
                /\ ENABLED (current_problem' = problem /\ action_next))
    /\ [](current_problem = None \/ current_problem \in SolvedProblems(data))

\* after a solution for the problem in parentheses was saved, the second
\* problem of the first topic was drawn
C15_Witness ==
    /\ On("solve")
    /\ saved_log = <<Paren>>
    /\ current_problem # None
    /\ current_problem.name = TwoSumSlash
    /\ problem_text = ProblemText(current_problem)

\* the review screen is shown
InReview == running /\ "view" \in Range(screens)

\* C16: while the review screen is shown the entries are not empty and
\* 0 <= selected_index <= len(entries) - 1; action_navigate_up at 0 and
\* action_navigate_down at the last index leave selected_index as it is, and
\* otherwise each moves it by one.
C16_SelectionClamped ==
    /\ [](InReview => /\ session_solutions # <<>>
                      /\ 0 <= selected_index
                      /\ selected_index <= Len(session_solutions) - 1)
    /\ [][action_navigate_up
          => selected_index' = IF selected_index = 0 THEN 0 ELSE selected_index - 1]_vars
    /\ [][action_navigate_down
          => selected_index' = IF selected_index = Len(session_solutions) - 1
                               THEN selected_index
                               ELSE selected_index + 1]_vars

\* the selection was moved down to the last of three entries
C16_Witness ==
    /\ On("view")
    /\ Len(session_solutions) = 3
    /\ selected_index = 2
    /\ current_filepath = session_solutions[3][2]

\* this step shows an entry: the review screen is opened, or the selection
\* is moved
ShowStep ==
    \/ action_view /\ session_solutions # <<>>
    \/ action_navigate_up /\ selected_index > 0
    \/ action_navigate_down /\ selected_index < Len(session_solutions) - 1

\* the entry that step shows, counted from 0
ShowTarget ==
    IF action_view THEN 0
    ELSE IF action_navigate_up THEN selected_index - 1
    ELSE selected_index + 1

\* C17: showing an entry whose file is not there raises nothing, selects that
\* entry, shows the error text in place of the content and leaves the review
\* screen running; showing an entry whose file is there, after whatever was
\* shown, selects it and shows its content.
C17_MissingFileShown ==
    [][ShowStep
       => LET entry == session_solutions[ShowTarget + 1]
          IN /\ selected_index' = ShowTarget
             /\ current_filepath' = entry[2]
             /\ file_content' =
                   IF entry[2] \in DOMAIN fs_files
                   THEN FileText(entry[1], fs_files[entry[2]])
                   ELSE ErrorText(entry[2])
             /\ ~raised'
             /\ running' /\ screens'[Len(screens')] = "view"]_vars

\* the selection was moved down to the second entry, whose file an edit had
\* removed; the first entry's file is there
C17_Witness ==
    /\ On("view")
    /\ Len(session_solutions) = 2
    /\ selected_index = 1
    /\ file_content = ErrorText(session_solutions[2][2])
    /\ session_solutions[1][2] \in DOMAIN fs_files

\* C18: action_edit_selected runs the editor on the path of the selected
\* entry and then shows the content the file has now, or the error text
\* when the file is not there.
C18_Claimed ==
    [][(action_edit_selected /\ current_filepath # None)
       => LET entry == session_solutions[selected_index + 1]
          IN /\ vim_arg' = entry[2]
             /\ file_content' =
                   IF entry[2] \in DOMAIN fs_files'
                   THEN FileText(entry[1], fs_files'[entry[2]])
                   ELSE ErrorText(entry[2])]_vars

\* one list is the start of the other
IsPrefix(s, t) == Len(s) <= Len(t) /\ SubSeq(t, 1, Len(s)) = s

\* C19: from one state of a practice session to the next the entries only
\* grow at their end, whatever the editor did to the files.
C19_EntriesAppendOnly ==
    [][("solve" \in Range(screens) /\ "solve" \in Range(screens'))
       => IsPrefix(session_solutions, session_solutions')]_vars

\* two entries are recorded and the editor, opened on the first from the
\* review screen, removed its file
C19_Witness ==
    /\ On("view")
    /\ last.op = "edit_selected"
    /\ last.outcome = "remove"
    /\ Len(session_solutions) = 2
    /\ selected_index = 0
    /\ session_solutions[1][2] \notin DOMAIN fs_files
    /\ session_solutions[2][2] \in DOMAIN fs_files

(***************************************************************************)
(* What holds of every sequence of calls of the store.                     *)
(***************************************************************************)
\* C22: no step of the store removes, moves or renames a recorded problem:
\* every topic's problems list before the step is the start of its list after
\* it, the phases and the topics of each phase stay as many, and
\* get_all_solved_problems does not get shorter.
C22_ProblemsOnlyGrow ==
    [][/\ Len(data'.leetcode.phases) = Len(data.leetcode.phases)
       /\ \A i \in 1..Len(data.leetcode.phases) :
             /\ Len(data'.leetcode.phases[i].topics) = Len(data.leetcode.phases[i].topics)
             /\ \A j \in 1..Len(data.leetcode.phases[i].topics) :
                   IsPrefix(data.leetcode.phases[i].topics[j].problems,
                            data'.leetcode.phases[i].topics[j].problems)
       /\ Len(get_all_solved_problems(data')) >= Len(get_all_solved_problems(data))]_vars

\* a problem was added behind the one topic T2 held, a systems topic was
\* toggled, and the list of solved problems was taken
C22_Witness ==
    /\ last.op = "get_all_solved_problems"
    /\ data.leetcode.phases[1].topics[2].problems = <<Paren, TwoSum>>
    /\ data.systems # Systems
    /\ Len(last.result) >= 2

====
